---- MODULE Spec2Model ----
(***************************************************************************)
(* WideSky: firehose supervisor (widesky.py), processing stage             *)
(* (widesky_processor.py) and persistence stage (widesky_db.py).           *)
(*                                                                         *)
(* All tasks run on one asyncio event loop, so the code between two awaits *)
(* of a task is one atomic step; every action below is one such step.      *)
(* Time is counted in whole seconds by the variable clock.                 *)
(***************************************************************************)
EXTENDS Integers, Sequences, FiniteSets, TLC

\* ------------------------------------------------------------------ bounds
NumProcWorkers == 2     \* WideSkyProcessor(num_workers=5), scaled down
NumDbWorkers == 2       \* WideSkyPSQL(num_workers=5), scaled down
BatchSize == 2          \* WideSkyPSQL(batch_size=100), scaled down
MaxFrames == 2          \* frames the firehose delivers in one run
MaxFailures == 4        \* transport failures in one run
MaxRequests == 2        \* requests put on the persistence queue in one run
MaxTime == 4            \* seconds of wall clock explored
MaxRetries == 1         \* directory retries counted per lookup
MaxAttempts == 6        \* the same, where nothing but the lookup is followed

\* ------------------------------------------------------- program constants
FIREHOSE_RECONNECT_BASE_DELAY == 5
FIREHOSE_RECONNECT_MAX_DELAY == 60
BATCH_TIMEOUT == 3
CACHE_TTL == 3600
\* wait_exponential(multiplier=1, min=0.1, max=10), in milliseconds
WAIT_MULTIPLIER == 1000
WAIT_MIN == 100
WAIT_MAX == 10000

Unbound == -1           \* reconnect_attempt before its first assignment
None == "None"

ProcWorkers == 1..NumProcWorkers
DbWorkers == 1..NumDbWorkers

VARIABLES
    \* main() and the event loop
    mainPc, shutdown_event, wispClose, pool, httpx_client, clock,
    \* firehose_listener
    lpc, reconnect_attempt, reconnect_delay, connMsgs, attemptBeforeConnect,
    received, failures,
    \* WideSkyProcessor
    message_queue, procState,
    \* WideSkyPSQL
    process_queue, produced, dbPc, user_batch, post_batch, repost_batch,
    like_batch, now, last_flush, queued_message, idx, processed_batch,
    retries, conns,
    \* database and directory
    users, posts, reposts, likes, cache, directory, changedAt,
    \* bookkeeping of what each persistence worker did with its records
    dequeued, handed, rehanded, discarded, firstAppend, skipped

mainVars == <<mainPc, shutdown_event, wispClose, pool, httpx_client>>
supVars == <<lpc, reconnect_attempt, reconnect_delay, connMsgs,
             attemptBeforeConnect, received, failures>>
procVars == <<message_queue, procState>>
workerVars == <<dbPc, user_batch, post_batch, repost_batch, like_batch, now,
                last_flush, queued_message, idx, processed_batch, retries,
                conns>>
tableVars == <<users, posts, reposts, likes>>
dirVars == <<directory, changedAt>>
histVars == <<dequeued, handed, rehanded, discarded, firstAppend>>
vars == <<mainVars, clock, supVars, procVars, process_queue, produced,
          workerVars, tableVars, cache, dirVars, skipped, histVars>>

\* ----------------------------------------------------------------- helpers
Min(a, b) == IF a < b THEN a ELSE b
Max(a, b) == IF a > b THEN a ELSE b

RECURSIVE Pow2(_)
Pow2(n) == IF n = 0 THEN 1 ELSE 2 * Pow2(n - 1)

\* ------------------------------------------------------------------ frames
\* A firehose frame is represented by what read_firehose_frame makes of it:
\* the header tag t and the body's repo, ops and blocks; FrameGarbage is a
\* frame the decoder raises on.  A path is represented by the collection it
\* names; PathContains is Python's substring test `infix in path` on those
\* names.
PathContains(path, infix) ==
    \/ path = infix
    \/ path = "app.bsky.feed.postgate" /\ infix = "app.bsky.feed.post"

\* optional parts of a record: present says whether the key is there
\* (dict.get gives None when it is not)
Absent(fields) == [fields EXCEPT !.present = FALSE]

\* a `$type` string, as its dotted segments
Type(segs) == [present |-> TRUE, segs |-> segs]
NoType == [present |-> FALSE, segs |-> <<>>]
EmptyString == Type(<<"">>)

\* str(x).split(".")[-1] (lines 174, 213-215); str(None) is "None"
TerminalSegment(type) ==
    IF type.present THEN type.segs[Len(type.segs)] ELSE "None"

Video(ref) == [present |-> TRUE, ref |-> ref]
Images(refs) == [present |-> TRUE, refs |-> refs]
External(uri) == [present |-> TRUE, uri |-> uri]
Strong(cid, uri) == [present |-> TRUE, cid |-> cid, uri |-> uri]
NoVideo == Absent(Video(""))
NoImages == Absent(Images(<<>>))
NoExternal == Absent(External(""))
NoStrong == Absent(Strong("", ""))

\* embed.media of a recordWithMedia
Media(type, video, images, external) ==
    [present |-> TRUE, type |-> type, video |-> video, images |-> images,
     external |-> external]
NoMedia == Absent(Media(NoType, NoVideo, NoImages, NoExternal))

\* data["embed"]: record is embed.record, inner is embed.record.record
Embed(type, video, images, external, record, inner, media) ==
    [present |-> TRUE, type |-> type, video |-> video, images |-> images,
     external |-> external, record |-> record, inner |-> inner,
     media |-> media]
NoEmbed ==
    Absent(Embed(NoType, NoVideo, NoImages, NoExternal, NoStrong, NoStrong,
                 NoMedia))

\* block["data"]: v stands for createdAt, text, langs and facets; subject is
\* the subject of a repost or like
Data(v, subject, embed) ==
    [present |-> TRUE, v |-> v, subject |-> subject, embed |-> embed]
NoData == Absent(Data(0, NoStrong, NoEmbed))

StrBlock == [isStr |-> TRUE, cid |-> None, data |-> NoData]
Block(c, data) == [isStr |-> FALSE, cid |-> c, data |-> data]
Op(a, p, c) == [action |-> a, path |-> p, cid |-> c]

Request(kind, data) == [request |-> kind, data |-> data, id |-> 0]

\* the data of an insert_user request is the did alone; it is held as a
\* record of one field, so that the data of every request is a record
Did(did) == [did |-> did]

\* the outcome of a piece of code: the requests it has put on the persistence
\* queue and the exception it raised, if any
Done(reqs) == [reqs |-> reqs, exc |-> None]
Raise(exc) == [reqs |-> <<>>, exc |-> exc]
Then(r1, r2) ==
    IF r1.exc # None THEN r1
    ELSE [reqs |-> r1.reqs \o r2.reqs, exc |-> r2.exc]

\* catches only AttributeError
IsException_AttributeError(exc) == exc = "AttributeError"

\* `except Exception` (widesky_processor.py 43, 77, 146; widesky_db.py 138):
\* everything the code can raise but the cancellation of the task
IsException(exc) == exc \notin {None, "CancelledError"}

\* _process_post, lines 84-104: the storage frame before its block is found.
\* The empty strings of external_uri and record_cid are written <<>>, the
\* one-element lists they are replaced by <<x>>.
NewStorageFrame(cid, repo) ==
    [cid |-> cid, did |-> repo, v |-> 0, has_embed |-> FALSE,
     embed_type |-> EmptyString, embed_refs |-> <<>>, external_uri |-> <<>>,
     has_record |-> FALSE, record_cid |-> <<>>, record_uri |-> ""]

\* the outcome of _process_embeds: the storage frame, or the exception
Frame(sf) == [sf |-> sf, exc |-> None]
FrameRaise(sf, exc) == [sf |-> sf, exc |-> exc]

\* an unknown type fails the record
UnknownCase_Raises(sf) == FrameRaise(sf, "ValueError")

\* `case _:` (lines 234-239): a warning is logged, the frame is left as it is
UnknownCase(sf) == Frame(sf)

\* a media that is not looked at
ProcessMedia_Ignored(media, sf) == Frame(sf)

\* lines 218-236: the media of a recordWithMedia
ProcessMedia(media, sf) ==
    LET media_type == TerminalSegment(media.type)
        sf1 == [sf EXCEPT !.embed_type = Type(<<media_type>>)]
    IN  CASE media_type = "video" ->
               IF media.video.present
               THEN Frame([sf1 EXCEPT !.embed_refs = <<media.video.ref>>])
               ELSE FrameRaise(sf1, "AttributeError")
          [] media_type = "images" ->
               IF media.images.present
               THEN Frame([sf1 EXCEPT !.embed_refs = media.images.refs])
               ELSE FrameRaise(sf1, "TypeError")
          [] media_type = "external" ->
               IF media.external.present
               THEN Frame([sf1 EXCEPT !.external_uri = <<media.external.uri>>])
               ELSE FrameRaise(sf1, "AttributeError")
          [] OTHER -> UnknownCase(sf1)

\* _process_embeds, lines 170-240
ProcessEmbeds(data, sf) ==
    IF ~data.embed.present THEN Frame(sf)
    ELSE
    LET embed == data.embed
        embed_type == TerminalSegment(embed.type)
        sf1 == [sf EXCEPT !.embed_type = embed.type]
    IN  CASE embed_type = "video" ->
               IF embed.video.present
               THEN Frame([sf1 EXCEPT !.has_embed = TRUE,
                                      !.embed_refs = <<embed.video.ref>>])
               ELSE FrameRaise(sf1, "AttributeError")
          [] embed_type = "images" ->
               IF embed.images.present
               THEN Frame([sf1 EXCEPT !.has_embed = TRUE,
                                      !.embed_refs = embed.images.refs])
               ELSE FrameRaise(sf1, "TypeError")
          [] embed_type = "external" ->
               IF embed.external.present
               THEN Frame([sf1 EXCEPT !.has_embed = TRUE,
                                      !.external_uri = <<embed.external.uri>>])
               ELSE FrameRaise(sf1, "AttributeError")
          [] embed_type = "record" ->
               IF embed.record.present
               THEN Frame([sf1 EXCEPT !.has_embed = FALSE,
                                      !.has_record = TRUE,
                                      !.record_cid = <<embed.record.cid>>,
                                      !.record_uri = embed.record.uri])
               ELSE FrameRaise(sf1, "AttributeError")
          [] embed_type = "" -> Frame(sf1)
          [] embed_type = "recordWithMedia" ->
               IF embed.record.present /\ embed.inner.present
                  /\ embed.media.present
               THEN ProcessMedia(embed.media,
                                 [sf1 EXCEPT !.has_embed = TRUE,
                                             !.has_record = TRUE,
                                             !.record_cid = <<embed.inner.cid>>,
                                             !.record_uri = embed.inner.uri])
               ELSE FrameRaise(sf1, "AttributeError")
          [] OTHER -> UnknownCase(sf1)

\* lines 108-124 (post) and 134-142, 157-165 (repost, like): the block whose
\* cid matches is made into a request
Assemble(kind, cid, repo, block) ==
    IF kind = "insert_post"
    THEN IF ~block.data.present THEN Raise("KeyError")
         ELSE LET r == ProcessEmbeds(block.data,
                                     [NewStorageFrame(cid, repo)
                                        EXCEPT !.v = block.data.v])
              IN  IF r.exc # None THEN Raise(r.exc)
                  ELSE Done(<<Request(kind, r.sf)>>)
    ELSE IF ~block.data.present \/ ~block.data.subject.present
         THEN Raise("AttributeError")
         ELSE Done(<<Request(kind, [cid |-> cid, did |-> repo,
                                    v |-> block.data.v])>>)

\* the inner `for block in blocks` loop of _process_post/_repost/_like
RECURSIVE ScanBlocks(_, _, _, _)
ScanBlocks(kind, cid, repo, blocks) ==
    IF blocks = <<>> THEN Done(<<>>)
    ELSE Then(IF ~Head(blocks).isStr /\ Head(blocks).cid = cid
              THEN Assemble(kind, cid, repo, Head(blocks))
              ELSE Done(<<>>),
              ScanBlocks(kind, cid, repo, Tail(blocks)))

\* the outer `for cid in cids` loop
RECURSIVE ForCids(_, _, _, _)
ForCids(kind, cids, repo, blocks) ==
    IF cids = <<>> THEN Done(<<>>)
    ELSE Then(ScanBlocks(kind, Head(cids), repo, blocks),
              ForCids(kind, Tail(cids), repo, blocks))

\* the try of _process_repost (AttributeError, then Exception, lines 143-147)
\* and of _process_like (AttributeError, lines 166-168); _process_post has none
Handles(kind, exc) ==
    \/ kind = "insert_repost" /\ (exc = "AttributeError" \/ IsException(exc))
    \/ kind = "insert_like" /\ exc = "AttributeError"

\* _process_post / _process_repost / _process_like, called only with cids
\* (lines 71-76)
ProcessKind(kind, cids, repo, blocks) ==
    IF cids = <<>> THEN Done(<<>>)
    ELSE LET r == ForCids(kind, cids, repo, blocks)
         IN  IF Handles(kind, r.exc) THEN Done(r.reqs) ELSE r

\* read_firehose_frame (firehose_utils): header and body, or an exception for
\* bytes that are no frame
ReadFirehoseFrame(msg) == IF msg.decodes THEN None ELSE "ValueError"

\* `"..." in op.get("path")` (lines 59-70) raises TypeError for a create op
\* without a path; an op of another action never gets that far
OpsRaise(ops) ==
    \E i \in DOMAIN ops : ops[i].action = "create" /\ ops[i].path = None

\* cids of the create ops whose path contains the infix, in op order
RECURSIVE CollectCids(_, _)
CollectCids(ops, infix) ==
    IF ops = <<>> THEN <<>>
    ELSE (IF Head(ops).action = "create" /\ PathContains(Head(ops).path, infix)
          THEN <<Head(ops).cid>> ELSE <<>>) \o CollectCids(Tail(ops), infix)

\* _process_message, lines 48-76: the requests one frame puts on the
\* persistence queue and the exception that reaches line 77, if any
ProcessMessage(f) ==
    IF ReadFirehoseFrame(f) # None THEN Raise(ReadFirehoseFrame(f))
    ELSE IF f.t # "#commit" THEN Done(<<>>)
    ELSE
    LET ops == IF f.hasOps THEN f.ops ELSE <<>> IN
    Then(Done(<<Request("insert_user", Did(f.repo))>>),
         IF OpsRaise(ops) THEN Raise("TypeError")
         ELSE Then(ProcessKind("insert_post",
                               CollectCids(ops, "app.bsky.feed.post"),
                               f.repo, f.blocks),
              Then(ProcessKind("insert_repost",
                               CollectCids(ops, "app.bsky.feed.repost"),
                               f.repo, f.blocks),
                   ProcessKind("insert_like",
                               CollectCids(ops, "app.bsky.feed.like"),
                               f.repo, f.blocks))))

\* ------------------------------------------------------------ frames: inputs
CommitFrame(repo, ops, blocks) ==
    [decodes |-> TRUE, t |-> "#commit", repo |-> repo, hasOps |-> TRUE,
     ops |-> ops, blocks |-> blocks]

Subject == Strong("SC", "SU")
PlainData(v) == Data(v, Subject, NoEmbed)

FramePost ==
    CommitFrame("d1", <<Op("create", "app.bsky.feed.post", "c1")>>,
                <<StrBlock, Block("c1", PlainData(1))>>)
FrameLike ==
    CommitFrame("d1", <<Op("create", "app.bsky.feed.like", "c1"),
                        Op("delete", "app.bsky.feed.post", "c1")>>,
                <<Block("c1", PlainData(2))>>)
FrameIdentity ==
    [decodes |-> TRUE, t |-> "#identity", repo |-> "d1", hasOps |-> FALSE,
     ops |-> <<>>, blocks |-> <<>>]
FrameGarbage ==
    [decodes |-> FALSE, t |-> "", repo |-> None, hasOps |-> FALSE,
     ops |-> <<>>, blocks |-> <<>>]
\* a post whose block has no data section: block["data"] raises KeyError
FrameNoData ==
    CommitFrame("d1", <<Op("create", "app.bsky.feed.post", "c1")>>,
                <<Block("c1", NoData)>>)
Frames == {FramePost, FrameLike, FrameIdentity, FrameGarbage, FrameNoData}

\* The value -1 that close() puts on a queue, as a record so that it can be
\* compared with the frames and requests that share the queue.
FrameSentinel ==
    [decodes |-> TRUE, t |-> "-1", repo |-> None, hasOps |-> FALSE,
     ops |-> <<>>, blocks |-> <<>>]
Sentinel == [request |-> "-1", data |-> Did(None), id |-> 0]

\* the embeds, data sections, block lists and op lists the classification is
\* tried on
EmbedType(name) == Type(<<"app", "bsky", "embed", name>>)
SimpleEmbed(type, video, images, external, record) ==
    Embed(type, video, images, external, record, NoStrong, NoMedia)
MediaInputs ==
    {Media(EmbedType("video"), Video("VR"), NoImages, NoExternal),
     Media(EmbedType("images"), NoVideo, Images(<<"I1", "I2">>), NoExternal),
     Media(EmbedType("external"), NoVideo, NoImages, External("EU")),
     Media(EmbedType("gif"), NoVideo, NoImages, NoExternal),
     Media(NoType, NoVideo, NoImages, NoExternal),
     Media(EmbedType("video"), NoVideo, NoImages, NoExternal)}
EmbedInputs ==
    {NoEmbed,
     SimpleEmbed(EmbedType("video"), Video("VR"), NoImages, NoExternal,
                 NoStrong),
     SimpleEmbed(EmbedType("images"), NoVideo, Images(<<"I1", "I2">>),
                 NoExternal, NoStrong),
     SimpleEmbed(EmbedType("external"), NoVideo, NoImages, External("EU"),
                 NoStrong),
     SimpleEmbed(EmbedType("record"), NoVideo, NoImages, NoExternal,
                 Strong("RC", "RU")),
     SimpleEmbed(EmptyString, NoVideo, NoImages, NoExternal, NoStrong),
     SimpleEmbed(EmbedType("gif"), NoVideo, NoImages, NoExternal, NoStrong),
     SimpleEmbed(NoType, NoVideo, NoImages, NoExternal, NoStrong),
     SimpleEmbed(EmbedType("video"), NoVideo, NoImages, NoExternal, NoStrong),
     Embed(EmbedType("recordWithMedia"), NoVideo, NoImages, NoExternal,
           Strong("", ""), Strong("RC", "RU"), NoMedia)}
    \cup {Embed(EmbedType("recordWithMedia"), NoVideo, NoImages, NoExternal,
                Strong("", ""), Strong("RC", "RU"), m) : m \in MediaInputs}
DataInputs ==
    {NoData, Data(1, NoStrong, NoEmbed)}
    \cup {Data(1, Subject, e) : e \in EmbedInputs}
BlocksInputs ==
    {<<>>, <<StrBlock>>, <<Block("c2", PlainData(2))>>,
     <<Block("c1", PlainData(1)), Block("c1", PlainData(2))>>}
    \cup {<<StrBlock, Block("c1", d)>> : d \in DataInputs}
    \cup {<<Block("c1", d), Block("c2", PlainData(2))>> : d \in DataInputs}
Collections ==
    {"app.bsky.feed.post", "app.bsky.feed.repost", "app.bsky.feed.like",
     "app.bsky.feed.postgate", "app.bsky.graph.follow"}
OpsInputs ==
    {<<>>, <<Op("create", None, "c1")>>}
    \cup {<<Op(a, p, "c1")>> : a \in {"create", "update", "delete"},
                              p \in Collections}
    \cup {<<Op("create", p, "c1"), Op("create", q, "c2")>> :
            p, q \in Collections \ {"app.bsky.graph.follow"}}
FrameInputs ==
    {FrameIdentity, FrameGarbage,
     [CommitFrame("d1", <<>>, <<Block("c1", PlainData(1))>>)
        EXCEPT !.hasOps = FALSE]}
    \cup {CommitFrame("d1", ops, blocks) :
            ops \in OpsInputs, blocks \in BlocksInputs}

\* put_nowait of a list of requests: each gets the next serial number, which
\* only serves to tell two equal requests apart
RECURSIVE Number(_, _)
Number(reqs, n) ==
    IF reqs = <<>> THEN <<>>
    ELSE <<[Head(reqs) EXCEPT !.id = n + 1]>> \o Number(Tail(reqs), n + 1)

\* -------------------------------------------------------- firehose_listener
\* a supervisor that binds the counter once and never resets it
AttemptOnConnect_NoReset(a) == IF a = Unbound THEN 0 ELSE a

\* line 30: the only assignment to reconnect_attempt besides the increment
AttemptOnConnect(a) == 0

\* lines 41-44
ReconnectDelay(a) ==
    Min(FIREHOSE_RECONNECT_BASE_DELAY * Pow2(a), FIREHOSE_RECONNECT_MAX_DELAY)

\* lines 26-30: websockets.connect succeeds
ListenerConnectOk ==
    /\ lpc = "connecting"
    /\ lpc' = "connected"
    /\ attemptBeforeConnect' = reconnect_attempt
    /\ reconnect_attempt' = AttemptOnConnect(reconnect_attempt)
    /\ connMsgs' = 0
    /\ UNCHANGED <<reconnect_delay, received, failures>>
    /\ UNCHANGED <<mainVars, clock, procVars, process_queue, produced,
                   workerVars, tableVars, cache, dirVars, skipped, histVars>>

\* lines 32-34: one message received and handed to process_message
ListenerRecv ==
    /\ lpc = "connected"
    /\ received < MaxFrames
    /\ \E f \in Frames : message_queue' = Append(message_queue, f)
    /\ received' = received + 1
    /\ connMsgs' = connMsgs + 1
    /\ UNCHANGED <<lpc, reconnect_attempt, reconnect_delay,
                   attemptBeforeConnect, failures, procState>>
    /\ UNCHANGED <<mainVars, clock, process_queue, produced,
                   workerVars, tableVars, cache, dirVars, skipped, histVars>>

\* lines 36-47 after a transport failure: the delay is computed from
\* reconnect_attempt outside the try; if the name is unbound the
\* UnboundLocalError ends the task
Backoff ==
    /\ failures' = failures + 1
    /\ IF reconnect_attempt = Unbound
       THEN /\ lpc' = "dead"
            /\ UNCHANGED <<reconnect_attempt, reconnect_delay>>
       ELSE /\ lpc' = "sleeping"
            /\ reconnect_delay' = ReconnectDelay(reconnect_attempt)
            /\ reconnect_attempt' = reconnect_attempt + 1
    /\ UNCHANGED <<attemptBeforeConnect, received>>
    /\ UNCHANGED <<mainVars, clock, procVars, process_queue, produced,
                   workerVars, tableVars, cache, dirVars, skipped, histVars>>

\* websockets.connect raises (refused, handshake failure)
ListenerConnectFail ==
    /\ lpc = "connecting"
    /\ failures < MaxFailures
    /\ connMsgs' = 0
    /\ Backoff

\* ws.recv raises ConnectionClosed or another error
ListenerConnectionLost ==
    /\ lpc = "connected"
    /\ failures < MaxFailures
    /\ UNCHANGED connMsgs
    /\ Backoff

\* line 47: the sleep is over, back to the top of the loop
ListenerSleepDone ==
    /\ lpc = "sleeping"
    /\ lpc' = "connecting"
    /\ UNCHANGED <<reconnect_attempt, reconnect_delay, connMsgs,
                   attemptBeforeConnect, received, failures>>
    /\ UNCHANGED <<mainVars, clock, procVars, process_queue, produced,
                   workerVars, tableVars, cache, dirVars, skipped, histVars>>

\* ------------------------------------------------------------------- main
\* line 59: processor.create() opens the pool and the directory client;
\* line 61 then starts the listener task.  A failure here is fatal.
MainCreate ==
    /\ mainPc = "create"
    /\ \E ok \in BOOLEAN :
         IF ok
         THEN /\ pool' = "open"
              /\ httpx_client' = "open"
              /\ mainPc' = "serving"
              /\ lpc' = "connecting"
         ELSE /\ mainPc' = "failed"
              /\ UNCHANGED <<pool, httpx_client, lpc>>
    /\ UNCHANGED <<shutdown_event, wispClose, reconnect_attempt,
                   reconnect_delay, connMsgs, attemptBeforeConnect, received,
                   failures>>
    /\ UNCHANGED <<clock, procVars, process_queue, produced,
                   workerVars, tableVars, cache, dirVars, skipped, histVars>>

\* SIGINT or SIGTERM (shutdown_handler, lines 50-52)
Signal ==
    /\ ~shutdown_event
    /\ mainPc \in {"create", "serving"}
    /\ shutdown_event' = TRUE
    /\ UNCHANGED <<mainPc, wispClose, pool, httpx_client>>
    /\ UNCHANGED <<clock, supVars, procVars, process_queue, produced,
                   workerVars, tableVars, cache, dirVars, skipped, histVars>>

\* a cancel that main does not wait for
AwaitCancelled_NotAwaited(l) == l

\* listener_task.cancel() and `await listener_task` (lines 65-70): when the
\* await returns, the task has ended
AwaitCancelled(l) == "cancelled"

\* lines 63-70: cancel the listener and await it.  A live listener ends with
\* CancelledError; one that already died re-raises its exception into main.
MainCancelListener ==
    /\ mainPc = "serving"
    /\ shutdown_event
    /\ IF lpc = "dead"
       THEN /\ mainPc' = "failed"
            /\ UNCHANGED lpc
       ELSE /\ mainPc' = "closing"
            /\ lpc' = AwaitCancelled(lpc)
    /\ UNCHANGED <<shutdown_event, wispClose, pool, httpx_client,
                   reconnect_attempt, reconnect_delay, connMsgs,
                   attemptBeforeConnect, received, failures>>
    /\ UNCHANGED <<clock, procVars, process_queue, produced,
                   workerVars, tableVars, cache, dirVars, skipped, histVars>>

\* WideSkyProcessor.close, lines 24-26: self._wisp.close() is called without
\* await, which only creates a coroutine object that never runs; then one -1
\* per processing worker is put on the message queue
ProcessorClose ==
    /\ mainPc = "closing"
    /\ wispClose' = "never_awaited"
    /\ message_queue' = message_queue \o
                          [i \in 1..NumProcWorkers |-> FrameSentinel]
    /\ mainPc' = "gather"
    /\ UNCHANGED <<shutdown_event, pool, httpx_client, procState>>
    /\ UNCHANGED <<clock, supVars, process_queue, produced,
                   workerVars, tableVars, cache, dirVars, skipped, histVars>>

\* WideSkyProcessor.close, lines 27-28, and the return of main
ProcessorGathered ==
    /\ mainPc = "gather"
    /\ \A w \in ProcWorkers : procState[w] # "running"
    /\ mainPc' = "done"
    /\ UNCHANGED <<shutdown_event, wispClose, pool, httpx_client>>
    /\ UNCHANGED <<clock, supVars, procVars, process_queue, produced,
                   workerVars, tableVars, cache, dirVars, skipped, histVars>>

\* asyncio.run(main()), line 109: once main has returned or raised, every
\* task still alive is cancelled (CancelledError is not an Exception, so no
\* handler of a worker catches it)
RunTeardown ==
    /\ mainPc \in {"done", "failed"}
    /\ mainPc' = "exited"
    /\ procState' = [w \in ProcWorkers |->
                       IF procState[w] = "running" THEN "cancelled"
                       ELSE procState[w]]
    /\ dbPc' = [w \in DbWorkers |->
                  IF dbPc[w] \in {"exited", "dead"} THEN dbPc[w]
                  ELSE "cancelled"]
    /\ UNCHANGED <<shutdown_event, wispClose, pool, httpx_client,
                   message_queue>>
    /\ UNCHANGED <<user_batch, post_batch, repost_batch, like_batch, now,
                   last_flush, queued_message, idx, processed_batch, retries>>
    /\ conns' = [w \in DbWorkers |-> 0]
    /\ UNCHANGED <<clock, supVars, process_queue, produced,
                   tableVars, cache, dirVars, skipped, histVars>>

\* ------------------------------------------------------- WideSkyProcessor
\* what becomes of a worker whose item raised exc: the handlers of lines 77 and
\* 43 (processing) and of line 138 (persistence) keep it in its loop, anything
\* they do not catch ends the task
AfterItem(exc) ==
    IF exc = None \/ IsException(exc) THEN "running" ELSE "dead"

\* _worker, lines 33-44: dequeue; -1 ends the worker, a frame is classified
\* and its requests are put on the persistence queue
ProcWorkerStep(w) ==
    /\ procState[w] = "running"
    /\ message_queue # <<>>
    /\ message_queue' = Tail(message_queue)
    /\ IF Head(message_queue).t = FrameSentinel.t
       THEN /\ procState' = [procState EXCEPT ![w] = "exited"]
            /\ UNCHANGED <<process_queue, produced>>
       ELSE /\ LET r == ProcessMessage(Head(message_queue)) IN
                /\ process_queue' = process_queue \o Number(r.reqs, produced)
                /\ produced' = produced + Len(r.reqs)
                /\ procState' =
                     [procState EXCEPT ![w] = AfterItem(r.exc)]
    /\ UNCHANGED <<mainVars, clock, supVars, workerVars, tableVars, cache,
                   dirVars, skipped, histVars>>

\* ----------------------------------------------------- database statements
\* INSERT INTO users ... ON CONFLICT (did) DO UPDATE SET also_known_as_full =
\* CASE WHEN cardinality(EXCLUDED...) > cardinality(users...) (lines 180-191)
\* an upsert that always takes the new list
UpsertUser_Always(table, row) ==
    IF \E r \in table : r.did = row.did
    THEN {IF r.did = row.did
          THEN [r EXCEPT !.also_known_as_full = row.also_known_as_full]
          ELSE r : r \in table}
    ELSE table \cup {row}

UpsertUser(table, row) ==
    IF \E r \in table : r.did = row.did
    THEN {IF r.did = row.did
          THEN [r EXCEPT !.also_known_as_full =
                   IF Len(row.also_known_as_full) > Len(r.also_known_as_full)
                   THEN row.also_known_as_full
                   ELSE r.also_known_as_full]
          ELSE r : r \in table}
    ELSE table \cup {row}

\* INSERT INTO posts/reposts/likes ... ON CONFLICT DO NOTHING, cid being the
\* primary key (lines 208-221, 238-244, 261-267)
\* an insert that overwrites the row on conflict
InsertOverwrite(table, row) ==
    {r \in table : r.cid # row.cid} \cup {row}

InsertDoNothing(table, row) ==
    IF \E r \in table : r.cid = row.cid THEN table ELSE table \cup {row}

\* cur.executemany: the statement is run for each element of the batch in order
RECURSIVE ExecuteManyUsers(_, _)
ExecuteManyUsers(table, rows) ==
    IF rows = <<>> THEN table
    ELSE ExecuteManyUsers(UpsertUser(table, Head(rows)), Tail(rows))

RECURSIVE ExecuteMany(_, _)
ExecuteMany(table, batch) ==
    IF batch = <<>> THEN table
    ELSE ExecuteMany(InsertDoNothing(table, Head(batch).data), Tail(batch))

\* -------------------------------------------------------------- directory
\* the alsoKnownAs lists plc.directory may answer with
HandleLists == {<<"a">>, <<"b">>, <<"a", "b">>}
Dids == {"d1"}

\* the in-memory cache of @cached (line 21): per key the value stored and the
\* time of the set, from which the ttl of the entry runs
Entry(value, at) == [value |-> value, at |-> at]
NoEntry == Entry(<<>>, 0)

\* a cache whose entries never expire
Expired_Never(entry, t) == FALSE

\* the entry was set ttl seconds ago or more: its delete handle has run
Expired(entry, t) == t - entry.at >= CACHE_TTL

\* cache.get(key) finds a value for the did
CacheHit(did) == cache[did] # NoEntry /\ ~Expired(cache[did], clock)

\* a document whose alsoKnownAs is empty: aka[0] (line 27) raises IndexError on
\* every attempt
NoHandles == <<>>
DirectoryLists == HandleLists \cup {NoHandles}

\* plc.directory changes the document of a did; changedAt remembers how many
\* requests had been submitted by then
DirectoryChange ==
    /\ \E d \in Dids : \E aka \in DirectoryLists \ {directory[d]} :
         directory' = [directory EXCEPT ![d] = aka]
    /\ changedAt' = produced
    /\ UNCHANGED <<mainVars, clock, supVars, procVars, process_queue, produced,
                   workerVars, tableVars, cache, skipped, histVars>>

\* ------------------------------------------------------ WideSkyPSQL._worker
NoMessage == [request |-> "None", data |-> Did(None), id |-> 0]
Kinds == {"insert_user", "insert_post", "insert_repost", "insert_like"}

\* bookkeeping entry for a request: serial number, kind, key and payload
Tag(req) ==
    IF req.request = "insert_user"
    THEN <<req.id, req.request, req.data.did, 0>>
    ELSE <<req.id, req.request, req.data.cid, req.data.v>>

Ids(batch) == {Tag(batch[i]) : i \in DOMAIN batch}

\* bookkeeping: the _batch_insert_* call that worker w made with batch has
\* returned
Hand(w, batch) ==
    /\ handed' = [handed EXCEPT ![w] = @ \cup Ids(batch)]
    /\ rehanded' = [rehanded EXCEPT ![w] = @ \cup (handed[w] \cap Ids(batch))]

\* line 87
Timeout(w) == Max(0, BATCH_TIMEOUT - (now[w] - last_flush[w]))

\* lines 110-112, 116-118, 122-124, 128-130
NeedFlush(batch, msg) ==
    Len(batch) >= BatchSize \/ (msg.request = "None" /\ batch # <<>>)

\* the first of the four flush conditions, from `stage` on, that holds; "wait"
\* (the top of the loop) when none does
StageFrom(stage, ub, pb, rb, lb, msg) ==
    IF stage = "check" /\ NeedFlush(ub, msg) THEN "check"
    ELSE IF stage \in {"check", "flush_post"} /\ NeedFlush(pb, msg)
         THEN "flush_post"
    ELSE IF stage \in {"check", "flush_post", "flush_repost"}
            /\ NeedFlush(rb, msg)
         THEN "flush_repost"
    ELSE IF NeedFlush(lb, msg) THEN "flush_like"
    ELSE "wait"

\* move worker w on; reaching "wait" starts a new iteration, which reads the
\* loop time (line 86)
Goto(w, stage, msg) ==
    /\ dbPc' = [dbPc EXCEPT ![w] = stage]
    /\ now' = IF stage = "wait" THEN [now EXCEPT ![w] = clock] ELSE now
    /\ queued_message' =
         [queued_message EXCEPT ![w] = IF stage = "wait" THEN NoMessage ELSE msg]

Alive(w) == dbPc[w] \notin {"exited", "cancelled", "dead"}

\* lines 89-109: wait_for returns a request (only possible with a positive
\* timeout: with timeout 0 wait_for cancels the get before it runs)
DbWorkerGet(w) ==
    /\ dbPc[w] = "wait"
    /\ Timeout(w) > 0
    /\ clock < now[w] + Timeout(w)
    /\ process_queue # <<>>
    /\ LET msg == Head(process_queue)
           ub == IF msg.request = "insert_user"
                 THEN Append(user_batch[w], msg) ELSE user_batch[w]
           pb == IF msg.request = "insert_post"
                 THEN Append(post_batch[w], msg) ELSE post_batch[w]
           rb == IF msg.request = "insert_repost"
                 THEN Append(repost_batch[w], msg) ELSE repost_batch[w]
           lb == IF msg.request = "insert_like"
                 THEN Append(like_batch[w], msg) ELSE like_batch[w]
       IN  /\ process_queue' = Tail(process_queue)
           /\ IF msg.request = Sentinel.request
              THEN /\ dbPc' = [dbPc EXCEPT ![w] = "exited"]
                   /\ UNCHANGED <<user_batch, post_batch, repost_batch,
                                  like_batch, now, queued_message,
                                  dequeued, firstAppend>>
              ELSE /\ user_batch' = [user_batch EXCEPT ![w] = ub]
                   /\ post_batch' = [post_batch EXCEPT ![w] = pb]
                   /\ repost_batch' = [repost_batch EXCEPT ![w] = rb]
                   /\ like_batch' = [like_batch EXCEPT ![w] = lb]
                   /\ dequeued' = [dequeued EXCEPT ![w] = @ \cup {Tag(msg)}]
                   /\ firstAppend' =
                        [firstAppend EXCEPT ![w][msg.request] =
                           IF @ = -1 THEN clock ELSE @]
                   /\ Goto(w, StageFrom("check", ub, pb, rb, lb, msg), msg)
    /\ UNCHANGED <<last_flush, idx, processed_batch, retries, conns, handed,
                   rehanded, discarded>>
    /\ UNCHANGED <<mainVars, clock, supVars, procVars, produced, tableVars,
                   cache, dirVars, skipped>>

\* lines 92-93: TimeoutError, either at once (timeout 0) or when the time that
\* was left since last_flush has passed
DbWorkerTimeout(w) ==
    /\ dbPc[w] = "wait"
    /\ clock >= now[w] + Timeout(w)
    /\ Goto(w, StageFrom("check", user_batch[w], post_batch[w],
                         repost_batch[w], like_batch[w], NoMessage), NoMessage)
    /\ UNCHANGED <<user_batch, post_batch, repost_batch, like_batch,
                   last_flush, idx, processed_batch, retries, conns,
                   process_queue>>
    /\ UNCHANGED <<mainVars, clock, supVars, procVars, produced, tableVars,
                   cache, dirVars, skipped, histVars>>

\* ------------------------------------------- WideSkyPSQL._batch_insert_user
UserRow(did, aka) ==
    [did |-> did, first_known_as |-> aka[1], also_known_as_full |-> aka]

\* return to _worker, lines 114-115: the batch is cleared and last_flush set to
\* the time read at the top of this iteration; then the post, repost and like
\* conditions are tried
FinishUserFlush(w) ==
    /\ Hand(w, user_batch[w])
    /\ user_batch' = [user_batch EXCEPT ![w] = <<>>]
    /\ last_flush' = [last_flush EXCEPT ![w] = now[w]]
    /\ firstAppend' = [firstAppend EXCEPT ![w]["insert_user"] = -1]
    /\ idx' = [idx EXCEPT ![w] = 1]
    /\ processed_batch' = [processed_batch EXCEPT ![w] = <<>>]
    /\ Goto(w, StageFrom("flush_post", <<>>, post_batch[w], repost_batch[w],
                         like_batch[w], queued_message[w]), queued_message[w])

\* lines 163-174: the loop goes to the next request of the batch; after the
\* last one the rows collected are written, if there are any
AdvanceUser(w, rows) ==
    IF idx[w] < Len(user_batch[w])
    THEN /\ idx' = [idx EXCEPT ![w] = @ + 1]
         /\ processed_batch' = [processed_batch EXCEPT ![w] = rows]
         /\ Goto(w, "check", queued_message[w])
         /\ UNCHANGED <<user_batch, last_flush, firstAppend, handed, rehanded>>
    ELSE IF rows # <<>>
    THEN /\ processed_batch' = [processed_batch EXCEPT ![w] = rows]
         /\ Goto(w, "write", queued_message[w])
         /\ UNCHANGED <<idx, user_batch, last_flush, firstAppend, handed,
                        rehanded>>
    ELSE FinishUserFlush(w)

\* --------------------------------------------------- self.pool.connection()
\* AsyncConnectionPool(max_size=self._num_workers + 1), line 59
MaxSize == NumDbWorkers + 1

Held == LET RECURSIVE Sum(_)
            Sum(n) == IF n = 0 THEN 0 ELSE conns[n] + Sum(n - 1)
        IN  Sum(NumDbWorkers)

\* the statements that run on a connection: the existence check (line 367)
\* and the four executemany (lines 176, 204, 234, 257)
AtDatabase(w) ==
    dbPc[w] \in {"check", "write", "flush_post", "flush_repost", "flush_like"}

\* a connection that stays checked out when its block is left
Release_Leaked(n) == n

\* the end of an `async with self.pool.connection()` block gives the
\* connection back
Release(n) == Max(0, n - 1)

\* `async with self.pool.connection() as conn`: the worker takes a connection
\* of the open pool, when the pool has one to give
DbAcquire(w) ==
    /\ AtDatabase(w)
    /\ conns[w] = 0
    /\ pool = "open"
    /\ Held < MaxSize
    /\ conns' = [conns EXCEPT ![w] = @ + 1]
    /\ UNCHANGED <<dbPc, user_batch, post_batch, repost_batch, like_batch,
                   now, last_flush, queued_message, idx, processed_batch,
                   retries>>
    /\ UNCHANGED <<mainVars, clock, supVars, procVars, process_queue, produced,
                   tableVars, cache, dirVars, skipped, histVars>>

\* a check that never finds the row
UserExists_Never(table, did) == FALSE

\* SELECT 1 FROM users WHERE did = %s LIMIT 1 and fetchone (lines 369-370)
UserExists(table, did) == \E r \in table : r.did = did

\* _check_user, lines 366-371, for request idx of the batch.  A database error
\* here is outside every try of _batch_insert_user: it ends the iteration in
\* the handler of line 138 with nothing cleared.
DbCheckUser(w) ==
    /\ dbPc[w] = "check"
    /\ \E ok \in BOOLEAN :
         /\ ok => (pool = "open" /\ conns[w] > 0)
         /\ IF ~ok
            THEN /\ Goto(w, IF AfterItem("OperationalError") = "running"
                            THEN "wait" ELSE "dead", NoMessage)
                 /\ idx' = [idx EXCEPT ![w] = 1]
                 /\ processed_batch' = [processed_batch EXCEPT ![w] = <<>>]
                 /\ UNCHANGED <<user_batch, last_flush, firstAppend, handed,
                                rehanded, skipped>>
            ELSE IF UserExists(users, user_batch[w][idx[w]].data.did)
            THEN /\ AdvanceUser(w, processed_batch[w])
                 /\ skipped' = [skipped EXCEPT
                                  ![w] = @ \cup {Tag(user_batch[w][idx[w]])}]
            ELSE /\ Goto(w, "cache", queued_message[w])
                 /\ UNCHANGED <<idx, processed_batch, user_batch, last_flush,
                                firstAppend, handed, rehanded, skipped>>
    /\ conns' = [conns EXCEPT ![w] = Release(@)]
    /\ UNCHANGED <<post_batch, repost_batch, like_batch, retries,
                   process_queue, dequeued, discarded>>
    /\ UNCHANGED <<mainVars, clock, supVars, procVars, produced, tableVars,
                   cache, dirVars>>

\* lookup_user, line 21: the @cached wrapper answers from the cache when it can
DbLookupCache(w) ==
    /\ dbPc[w] = "cache"
    /\ LET did == user_batch[w][idx[w]].data.did IN
         IF CacheHit(did)
         THEN AdvanceUser(w, Append(processed_batch[w],
                                    UserRow(did, cache[did].value)))
         ELSE /\ Goto(w, "http", queued_message[w])
              /\ UNCHANGED <<idx, processed_batch, user_batch, last_flush,
                             firstAppend, handed, rehanded>>
    /\ UNCHANGED <<post_batch, repost_batch, like_batch, retries, conns,
                   process_queue, dequeued, discarded>>
    /\ UNCHANGED <<mainVars, clock, supVars, procVars, produced, tableVars,
                   cache, dirVars, skipped>>

\* the retry state of @retry (line 22): the number of the attempt being made
\* and the sleep taken before it, in milliseconds
RetryState(attempt_number, upcoming_sleep) ==
    [attempt_number |-> attempt_number, upcoming_sleep |-> upcoming_sleep]
FirstAttempt == RetryState(1, 0)

\* a backoff that is not capped
WaitExponential_Uncapped(attempt_number) ==
    WAIT_MULTIPLIER * Pow2(attempt_number - 1)

\* wait_exponential.__call__: multiplier * 2 ** (attempt_number - 1), clamped
\* to [max(0, min), max]
WaitExponential(attempt_number) ==
    Max(Max(0, WAIT_MIN),
        Min(WAIT_MULTIPLIER * Pow2(attempt_number - 1), WAIT_MAX))

\* lookup_user, lines 22-31: a 200 answer with a non-empty alsoKnownAs gives
\* (aka[0], aka) and is cached; anything else raises, and @retry (no stop
\* condition, every exception) sleeps and tries again: a transient failure
\* a counted number of times (at most maxRetries are followed), an empty
\* alsoKnownAs for as long as the document stays so
LookupHttp(w, maxRetries) ==
    /\ dbPc[w] = "http"
    /\ LET did == user_batch[w][idx[w]].data.did
           aka == directory[did] IN
         \/ /\ httpx_client = "open"
            /\ aka # NoHandles
            /\ cache' = [cache EXCEPT ![did] = Entry(aka, clock)]
            /\ AdvanceUser(w, Append(processed_batch[w], UserRow(did, aka)))
            /\ retries' = [retries EXCEPT ![w] = FirstAttempt]
         \/ /\ retries[w].attempt_number <= maxRetries
            /\ retries' =
                 [retries EXCEPT
                    ![w] = RetryState(@.attempt_number + 1,
                                      WaitExponential(@.attempt_number))]
            /\ UNCHANGED <<cache, dbPc, now, queued_message, idx,
                           processed_batch, user_batch, last_flush,
                           firstAppend, handed, rehanded>>
    /\ UNCHANGED <<post_batch, repost_batch, like_batch, conns,
                   process_queue, dequeued, discarded>>
    /\ UNCHANGED <<mainVars, clock, supVars, procVars, produced, tableVars,
                   dirVars, skipped>>

DbLookupHttp(w) == LookupHttp(w, MaxRetries)

\* the lookup with its retries followed further
DbLookupRetry(w) == LookupHttp(w, MaxAttempts)

\* lines 174-198: executemany and commit in one transaction; a failure is
\* logged inside _batch_insert_user and the batch is dropped
DbWriteUsers(w) ==
    /\ dbPc[w] = "write"
    /\ \E ok \in BOOLEAN :
         /\ ok => (pool = "open" /\ conns[w] > 0)
         /\ users' = IF ok THEN ExecuteManyUsers(users, processed_batch[w])
                     ELSE users
         /\ discarded' = IF ok THEN discarded
                         ELSE [discarded EXCEPT
                                 ![w] = @ \cup (Ids(user_batch[w]))]
    /\ FinishUserFlush(w)
    /\ conns' = [conns EXCEPT ![w] = Release(@)]
    /\ UNCHANGED <<post_batch, repost_batch, like_batch, retries,
                   process_queue, dequeued>>
    /\ UNCHANGED <<mainVars, clock, supVars, procVars, produced, posts,
                   reposts, likes, cache, dirVars, skipped>>

\* --------------------------- _batch_insert_post / _repost / _like and return
\* lines 119-121 and 200-228
DbFlushPost(w) ==
    /\ dbPc[w] = "flush_post"
    /\ Hand(w, post_batch[w])
    /\ \E ok \in BOOLEAN :
         /\ ok => (pool = "open" /\ conns[w] > 0)
         /\ posts' = IF ok THEN ExecuteMany(posts, post_batch[w]) ELSE posts
         /\ discarded' = IF ok THEN discarded
                         ELSE [discarded EXCEPT
                                 ![w] = @ \cup (Ids(post_batch[w]))]
    /\ post_batch' = [post_batch EXCEPT ![w] = <<>>]
    /\ last_flush' = [last_flush EXCEPT ![w] = now[w]]
    /\ firstAppend' = [firstAppend EXCEPT ![w]["insert_post"] = -1]
    /\ Goto(w, StageFrom("flush_repost", <<>>, <<>>, repost_batch[w],
                         like_batch[w], queued_message[w]), queued_message[w])
    /\ conns' = [conns EXCEPT ![w] = Release(@)]
    /\ UNCHANGED <<user_batch, repost_batch, like_batch, idx, processed_batch,
                   retries, process_queue, dequeued>>
    /\ UNCHANGED <<mainVars, clock, supVars, procVars, produced, users,
                   reposts, likes, cache, dirVars, skipped>>

\* lines 125-127 and 230-251
DbFlushRepost(w) ==
    /\ dbPc[w] = "flush_repost"
    /\ Hand(w, repost_batch[w])
    /\ \E ok \in BOOLEAN :
         /\ ok => (pool = "open" /\ conns[w] > 0)
         /\ reposts' = IF ok THEN ExecuteMany(reposts, repost_batch[w])
                       ELSE reposts
         /\ discarded' = IF ok THEN discarded
                         ELSE [discarded EXCEPT
                                 ![w] = @ \cup (Ids(repost_batch[w]))]
    /\ repost_batch' = [repost_batch EXCEPT ![w] = <<>>]
    /\ last_flush' = [last_flush EXCEPT ![w] = now[w]]
    /\ firstAppend' = [firstAppend EXCEPT ![w]["insert_repost"] = -1]
    /\ Goto(w, StageFrom("flush_like", <<>>, <<>>, <<>>, like_batch[w],
                         queued_message[w]), queued_message[w])
    /\ conns' = [conns EXCEPT ![w] = Release(@)]
    /\ UNCHANGED <<user_batch, post_batch, like_batch, idx, processed_batch,
                   retries, process_queue, dequeued>>
    /\ UNCHANGED <<mainVars, clock, supVars, procVars, produced, users,
                   posts, likes, cache, dirVars, skipped>>

\* lines 131-133 and 253-274
DbFlushLike(w) ==
    /\ dbPc[w] = "flush_like"
    /\ Hand(w, like_batch[w])
    /\ \E ok \in BOOLEAN :
         /\ ok => (pool = "open" /\ conns[w] > 0)
         /\ likes' = IF ok THEN ExecuteMany(likes, like_batch[w]) ELSE likes
         /\ discarded' = IF ok THEN discarded
                         ELSE [discarded EXCEPT
                                 ![w] = @ \cup (Ids(like_batch[w]))]
    /\ like_batch' = [like_batch EXCEPT ![w] = <<>>]
    /\ last_flush' = [last_flush EXCEPT ![w] = now[w]]
    /\ firstAppend' = [firstAppend EXCEPT ![w]["insert_like"] = -1]
    /\ Goto(w, "wait", NoMessage)
    /\ conns' = [conns EXCEPT ![w] = Release(@)]
    /\ UNCHANGED <<user_batch, post_batch, repost_batch, idx, processed_batch,
                   retries, process_queue, dequeued>>
    /\ UNCHANGED <<mainVars, clock, supVars, procVars, produced, users,
                   posts, reposts, cache, dirVars, skipped>>

\* ------------------------------------------------------------------- time
\* A worker that can take a step without waiting takes it before time moves
\* on: a request is ready for its get, its timeout is due with something to
\* flush, or it is inside a database call.  Waiting on an empty queue and
\* waiting for the directory let time pass.
Urgent(w) ==
    \/ /\ dbPc[w] = "wait"
       /\ \/ Timeout(w) > 0 /\ clock < now[w] + Timeout(w)
             /\ process_queue # <<>>
          \/ /\ clock >= now[w] + Timeout(w)
             /\ StageFrom("check", user_batch[w], post_batch[w],
                          repost_batch[w], like_batch[w], NoMessage) # "wait"
    \/ dbPc[w] \in {"check", "cache", "write", "flush_post", "flush_repost",
                    "flush_like"}

Tick ==
    /\ clock < MaxTime
    /\ \A w \in DbWorkers : ~Urgent(w)
    /\ clock' = clock + 1
    /\ UNCHANGED <<mainVars, supVars, procVars, process_queue, produced,
                   workerVars, tableVars, cache, dirVars, skipped, histVars>>

\* nothing runs for most of an hour: the event loop is held up, or every
\* task waits on the database, the directory or its queue
Stall ==
    /\ clock <= MaxTime
    /\ clock' = clock + CACHE_TTL - 2
    /\ UNCHANGED <<mainVars, supVars, procVars, process_queue, produced,
                   workerVars, tableVars, cache, dirVars, skipped, histVars>>

\* --------------------------------------- insert_user / _post / _repost / _like
\* lines 141-157, called by the processing stage: put_nowait of one request
Requests(k) ==
    CASE k = "insert_user" -> {Request(k, Did(d)) : d \in Dids}
      [] k = "insert_post" ->
           {Request(k, [NewStorageFrame("c1", "d1") EXCEPT !.v = v]) :
              v \in 1..2}
      [] OTHER -> {Request(k, [cid |-> "c1", did |-> "d1", v |-> v]) :
                     v \in 1..2}

InsertRequest ==
    /\ produced < MaxRequests
    /\ \E k \in Kinds : \E r \in Requests(k) :
         process_queue' = process_queue \o Number(<<r>>, produced)
    /\ produced' = produced + 1
    /\ UNCHANGED <<mainVars, clock, supVars, procVars, workerVars, tableVars,
                   cache, dirVars, skipped, histVars>>

\* ---------------------------------------------------------- specifications
\* what holds of every task right after WideSkyProcessor() (line 58): both
\* pools of workers exist and wait on their empty queues, nothing is stored
InitTasks ==
    /\ shutdown_event = FALSE
    /\ wispClose = "not_called"
    /\ clock = 0
    /\ reconnect_attempt = Unbound
    /\ reconnect_delay = 0
    /\ connMsgs = 0
    /\ attemptBeforeConnect = Unbound
    /\ received = 0
    /\ failures = 0
    /\ procState = [w \in ProcWorkers |-> "running"]
    /\ dbPc = [w \in DbWorkers |-> "wait"]
    /\ user_batch = [w \in DbWorkers |-> <<>>]
    /\ post_batch = [w \in DbWorkers |-> <<>>]
    /\ repost_batch = [w \in DbWorkers |-> <<>>]
    /\ like_batch = [w \in DbWorkers |-> <<>>]
    /\ now = [w \in DbWorkers |-> 0]
    /\ last_flush = [w \in DbWorkers |-> 0]
    /\ queued_message = [w \in DbWorkers |-> NoMessage]
    /\ idx = [w \in DbWorkers |-> 1]
    /\ processed_batch = [w \in DbWorkers |-> <<>>]
    /\ retries = [w \in DbWorkers |-> FirstAttempt]
    /\ conns = [w \in DbWorkers |-> 0]
    /\ users = {}
    /\ posts = {}
    /\ reposts = {}
    /\ likes = {}
    /\ cache = [d \in Dids |-> NoEntry]
    /\ directory \in [Dids -> HandleLists]
    /\ changedAt = 0
    /\ skipped = [w \in DbWorkers |-> {}]
    /\ dequeued = [w \in DbWorkers |-> {}]
    /\ handed = [w \in DbWorkers |-> {}]
    /\ rehanded = [w \in DbWorkers |-> {}]
    /\ discarded = [w \in DbWorkers |-> {}]
    /\ firstAppend = [w \in DbWorkers |-> [k \in Kinds |-> -1]]

\* main is about to call processor.create() (line 59)
Init ==
    /\ InitTasks
    /\ message_queue = <<>>
    /\ mainPc = "create"
    /\ pool = "unopened"
    /\ httpx_client = "none"
    /\ lpc = "not_started"
    /\ process_queue = <<>>
    /\ produced = 0

\* processor.create() has returned and the listener task exists (line 61)
InitServing ==
    /\ InitTasks
    /\ message_queue = <<>>
    /\ mainPc = "serving"
    /\ pool = "open"
    /\ httpx_client = "open"
    /\ lpc = "connecting"
    /\ process_queue = <<>>
    /\ produced = 0

\* as InitServing, when the processing workers have already put BatchSize + 1
\* requests on the persistence queue before a persistence worker runs
InitBurst ==
    /\ InitTasks
    /\ message_queue = <<>>
    /\ mainPc = "serving"
    /\ pool = "open"
    /\ httpx_client = "open"
    /\ lpc = "connecting"
    /\ \E ks \in [1..(BatchSize + 1) -> Kinds] :
       \E ds \in [1..(BatchSize + 1) -> Dids] :
         \E vs \in [1..(BatchSize + 1) -> 1..2] :
           process_queue =
             Number([i \in 1..(BatchSize + 1) |->
                       CHOOSE r \in Requests(ks[i]) :
                         IF ks[i] = "insert_user" THEN r.data.did = ds[i]
                         ELSE r.data.v = vs[i]], 0)
    /\ produced = BatchSize + 1

\* as InitServing, when the supervisor has handed one frame to
\* process_message (line 34) and no worker has taken it yet
InitFrames ==
    /\ InitTasks
    /\ mainPc = "serving"
    /\ pool = "open"
    /\ httpx_client = "open"
    /\ lpc = "connected"
    /\ \E f \in FrameInputs : message_queue = <<f>>
    /\ process_queue = <<>>
    /\ produced = 0

\* as InitServing, when the processing workers have put MaxRequests user
\* requests on the persistence queue
InitCache ==
    /\ InitTasks
    /\ message_queue = <<>>
    /\ mainPc = "serving"
    /\ pool = "open"
    /\ httpx_client = "open"
    /\ lpc = "connecting"
    /\ \E ds \in [1..MaxRequests -> Dids] :
         process_queue =
           Number([i \in 1..MaxRequests |-> Request("insert_user", Did(ds[i]))], 0)
    /\ produced = MaxRequests

DbWorkerNext ==
    \E w \in DbWorkers :
        \/ DbWorkerGet(w)
        \/ DbWorkerTimeout(w)
        \/ DbAcquire(w)
        \/ DbCheckUser(w)
        \/ DbLookupCache(w)
        \/ DbLookupHttp(w)
        \/ DbWriteUsers(w)
        \/ DbFlushPost(w)
        \/ DbFlushRepost(w)
        \/ DbFlushLike(w)

\* The supervisor, with the part of main that starts and cancels it.
NextListener ==
    \/ MainCreate
    \/ Signal
    \/ MainCancelListener
    \/ ListenerConnectOk
    \/ ListenerRecv
    \/ ListenerConnectFail
    \/ ListenerConnectionLost
    \/ ListenerSleepDone

SpecListener == Init /\ [][NextListener]_vars

\* The persistence stage while the program serves, with the clock.
NextPersist ==
    \/ InsertRequest
    \/ DirectoryChange
    \/ DbWorkerNext
    \/ Tick

SpecPersist == InitServing /\ [][NextPersist]_vars

\* The persistence stage working off a burst of requests.
NextBurst ==
    \/ DbWorkerNext
    \/ Tick

SpecBurst == InitBurst /\ [][NextBurst]_vars

\* The enrichment of user requests over more than an hour.
NextCache ==
    \/ DirectoryChange
    \/ \E w \in DbWorkers :
        \/ DbWorkerGet(w)
        \/ DbWorkerTimeout(w)
        \/ DbAcquire(w)
        \/ DbCheckUser(w)
        \/ DbLookupCache(w)
        \/ DbLookupHttp(w)
        \/ DbWriteUsers(w)
    \/ Tick
    \/ Stall

SpecCache == InitCache /\ [][NextCache]_vars

\* The enrichment of user requests with the retries of the directory lookup.
NextRetry ==
    \/ DirectoryChange
    \/ \E w \in DbWorkers :
        \/ DbWorkerGet(w)
        \/ DbAcquire(w)
        \/ DbCheckUser(w)
        \/ DbLookupCache(w)
        \/ DbLookupRetry(w)
        \/ DbWriteUsers(w)

SpecRetry == InitCache /\ [][NextRetry]_vars

\* The persistence stage while the program serves, under fair scheduling: the
\* event loop runs every task that is ready, time passes, and the database
\* does not fail the existence check for ever.
DbWorkerStep(w) ==
    \/ DbWorkerGet(w)
    \/ DbWorkerTimeout(w)
    \/ DbAcquire(w)
    \/ DbCheckUser(w)
    \/ DbLookupCache(w)
    \/ DbLookupHttp(w)
    \/ DbWriteUsers(w)
    \/ DbFlushPost(w)
    \/ DbFlushRepost(w)
    \/ DbFlushLike(w)

NextFair ==
    \/ InsertRequest
    \/ \E w \in DbWorkers : DbWorkerStep(w)
    \/ Tick

\* every step of the clock or of a worker that changes the state changes one
\* of these
stepVars == <<clock, dbPc, now, idx, retries, conns, dequeued, handed>>

SpecFair ==
    /\ InitServing
    /\ [][NextFair]_vars
    /\ WF_stepVars(Tick)
    /\ \A w \in DbWorkers :
         /\ WF_stepVars(DbWorkerStep(w))
         /\ SF_stepVars(DbCheckUser(w) /\ user_batch'[w] # user_batch[w])
         /\ SF_stepVars(DbCheckUser(w) /\ dbPc'[w] # "wait")

\* The processing stage classifying one frame.
NextFrames == \E w \in ProcWorkers : ProcWorkerStep(w)

SpecFrames == InitFrames /\ [][NextFrames]_vars

\* The whole program from start to exit, for a run that ends before the first
\* batch timeout and whose connection does not fail: main, the listener, both
\* pools of workers.  The frames of such a run carry posts and likes.
NextLife ==
    \/ MainCreate
    \/ Signal
    \/ MainCancelListener
    \/ ProcessorClose
    \/ ProcessorGathered
    \/ RunTeardown
    \/ ListenerConnectOk
    \/ ListenerRecv
    \/ \E w \in ProcWorkers : ProcWorkerStep(w)
    \/ \E w \in DbWorkers :
        \/ DbWorkerGet(w)
        \/ DbAcquire(w)
        \/ DbCheckUser(w)
        \/ DbLookupCache(w)
        \/ DbLookupHttp(w)
        \/ DbWriteUsers(w)
        \/ DbFlushPost(w)
        \/ DbFlushLike(w)

SpecLife == Init /\ [][NextLife]_vars

\* Every action of the program.
Next ==
    \/ NextListener
    \/ NextLife
    \/ DbWorkerNext
    \/ DirectoryChange
    \/ Tick
    \/ Stall
    \/ \E w \in DbWorkers : DbLookupRetry(w)

Spec == Init /\ [][Next]_vars

\* ------------------------------------------------------------- properties
Batches(w) == [insert_user |-> user_batch[w], insert_post |-> post_batch[w],
               insert_repost |-> repost_batch[w], insert_like |-> like_batch[w]]

SentinelsOn(q) == Cardinality({i \in DOMAIN q : q[i].request = Sentinel.request})

\* C1: on shutdown the supervisor has stopped before anything else is done;
\* once the processor's close has put its sentinels, one sentinel per
\* persistence worker has been put on the persistence queue as well; when stop
\* has completed the pool and the directory client are closed and the workers
\* of both pools have exited; and the pool or the client is never closed while
\* a persistence worker still runs or holds a batch.
C1_ShutdownOrder ==
    /\ mainPc \in {"closing", "gather", "done"} => lpc = "cancelled"
    /\ mainPc \in {"gather", "done"} =>
         SentinelsOn(process_queue)
           + Cardinality({w \in DbWorkers : dbPc[w] = "exited"}) = NumDbWorkers
    /\ mainPc = "done" =>
         /\ pool = "closed"
         /\ httpx_client = "closed"
         /\ \A w \in ProcWorkers : procState[w] = "exited"
         /\ \A w \in DbWorkers : dbPc[w] = "exited"
    /\ (pool = "closed" \/ httpx_client = "closed") =>
         \A w \in DbWorkers :
            /\ dbPc[w] = "exited"
            /\ \A k \in Kinds : Batches(w)[k] = <<>>

\* C2: once the program has started, a worker of either pool ends only by
\* dequeuing the sentinel (never by being cancelled), and when stop has completed every processing worker and
\* every persistence worker has dequeued its sentinel and ended.
C2_EveryWorkerEndsBySentinel ==
    /\ pool = "open" =>
         /\ \A w \in ProcWorkers : procState[w] # "cancelled"
         /\ \A w \in DbWorkers : dbPc[w] # "cancelled"
    /\ mainPc = "done" =>
         /\ \A w \in ProcWorkers : procState[w] = "exited"
         /\ \A w \in DbWorkers : dbPc[w] = "exited"

\* C3: no record is in two flushed batches of a worker, and when a persistence
\* worker has ended, the records it flushed are the records it dequeued less
\* those of the batches a failed flush discarded: none is left in a batch.
C3_FlushedIsDequeuedLessDiscarded ==
    \A w \in DbWorkers :
        /\ rehanded[w] = {}
        /\ ~Alive(w) =>
             /\ Cardinality(handed[w] \ discarded[w])
                  = Cardinality(dequeued[w]) - Cardinality(discarded[w])
             /\ \A k \in Kinds : Batches(w)[k] = <<>>

\* C4: a batch whose first item was the last request its worker received is
\* handed to its flush within BATCH_TIMEOUT seconds of that append, whatever
\* the other batches, the directory and the database do.
InFlush(w, k) ==
    \/ k = "insert_user" /\ dbPc[w] \in {"check", "cache", "http", "write"}
    \/ k = "insert_post" /\ dbPc[w] = "flush_post"
    \/ k = "insert_repost" /\ dbPc[w] = "flush_repost"
    \/ k = "insert_like" /\ dbPc[w] = "flush_like"

C4_FlushWithinBatchTimeout ==
    \A w \in DbWorkers : \A k \in Kinds :
        (/\ Alive(w)
         /\ Len(Batches(w)[k]) = 1
         /\ \A t \in dequeued[w] : t[1] <= Batches(w)[k][1].id
         /\ ~InFlush(w, k))
        => clock - firstAppend[w][k] <= BATCH_TIMEOUT

\* C5: no batch ever holds more than BATCH_SIZE entries, and a flush that a
\* received request triggers carries exactly BATCH_SIZE records.
C5_BatchNeverExceedsBatchSize ==
    \A w \in DbWorkers : \A k \in Kinds :
        /\ Len(Batches(w)[k]) <= BatchSize
        /\ (InFlush(w, k) /\ queued_message[w].request # "None")
             => Len(Batches(w)[k]) = BatchSize

\* C6: as long as no message has ever been received, the supervisor is alive
\* and the delay it computed after its k-th failure is the k-th element of
\* 5, 10, 20, 40, 60, 60, 60.
ColdStartDelays == <<5, 10, 20, 40, 60, 60, 60>>

C6_ColdStartDelaySequence ==
    (received = 0 /\ failures >= 1) =>
        /\ lpc # "dead"
        /\ reconnect_delay = ColdStartDelays[failures]

C8_SupervisorEndsOnlyByCancel == lpc # "dead"

\* C9: in posts, reposts and likes a cid has at most one row, and a row once
\* written is never changed or removed.
UniqueCid(table) == \A r1, r2 \in table : r1.cid = r2.cid => r1 = r2

C9_OneRowPerCid ==
    [][/\ UniqueCid(posts') /\ posts \subseteq posts'
       /\ UniqueCid(reposts') /\ reposts \subseteq reposts'
       /\ UniqueCid(likes') /\ likes \subseteq likes']_vars

Flushed(w) == handed[w] \ discarded[w]

\* two post requests with the same cid and different payloads have both been
\* written without error, by the same worker or by two
C9_Witness ==
    \E w1, w2 \in DbWorkers : \E a \in Flushed(w1), b \in Flushed(w2) :
        /\ a[2] = "insert_post" /\ b[2] = "insert_post"
        /\ a[3] = b[3]
        /\ a[4] # b[4]
        /\ Cardinality({r \in posts : r.cid = a[3]}) = 1

\* C10: a did has at most one users row; in every step each row keeps its
\* first_known_as, its list does not get shorter, and its list changes only
\* to a strictly longer one.
C10_HandleListNeverShrinks ==
    [][/\ \A r1, r2 \in users' : r1.did = r2.did => r1 = r2
       /\ \A r \in users : \E r2 \in users' :
            /\ r2.did = r.did
            /\ r2.first_known_as = r.first_known_as
            /\ Len(r2.also_known_as_full) >= Len(r.also_known_as_full)
            /\ r2.also_known_as_full # r.also_known_as_full
                 => Len(r2.also_known_as_full) > Len(r.also_known_as_full)]_vars

\* a row inserted with the list <<"b">> has been widened by a conflicting
\* upsert to <<"a", "b">> and still has its first handle
C10_Witness ==
    \E r \in users :
        /\ r.first_known_as = "b"
        /\ r.also_known_as_full = <<"a", "b">>

\* C11: a user request submitted after the directory last changed, once
\* flushed without a database failure, leaves a users row whose handle list is
\* at least as long as the directory's list for that did: a second submission
\* made while the directory returns a longer list widens the row.
C11_WidenedEndToEnd ==
    \A w \in DbWorkers : \A t \in handed[w] \ discarded[w] :
        (t[2] = "insert_user" /\ t[1] > changedAt)
        => \E r \in users :
              /\ r.did = t[3]
              /\ Len(r.also_known_as_full) >= Len(directory[t[3]])

\* the step worker w takes from the existence check of a request
CheckStep(w) ==
    /\ dbPc[w] = "check"
    /\ (dbPc'[w] # "check" \/ idx'[w] # idx[w])

\* C12: the check of a request whose did has a users row starts no directory
\* lookup, adds no row to the rows to be written and changes neither the
\* table nor the cache; a lookup starts only from the check of a did that has
\* no row.
C12_ExistingUserIsDropped ==
    [][\A w \in DbWorkers :
         /\ (CheckStep(w)
             /\ \E r \in users : r.did = user_batch[w][idx[w]].data.did)
            => /\ dbPc'[w] \notin {"cache", "http"}
               /\ processed_batch'[w] \in {processed_batch[w], <<>>}
               /\ users' = users
               /\ cache' = cache
         /\ (dbPc[w] # "cache" /\ dbPc'[w] = "cache")
            => /\ dbPc[w] = "check"
               /\ ~ \E r \in users : r.did = user_batch[w][idx[w]].data.did]_vars

\* a request was dropped by the existence check and its flush has returned,
\* the row being the one an earlier request wrote
C12_Witness ==
    \E w \in DbWorkers : \E t \in skipped[w] :
        /\ t \in handed[w]
        /\ \E r \in users : r.did = t[3]

\* C13: whenever a worker leaves the flush of a batch, by success or by a
\* database failure, that batch is empty: a failed flush discards its batch,
\* nothing of it is left to be submitted again.
C13_FailedFlushDiscardsBatch ==
    [][\A w \in DbWorkers : \A k \in Kinds :
         (InFlush(w, k) /\ ~InFlush(w, k)') => Batches(w)'[k] = <<>>]_vars

\* C14: whatever happens to one request of a user batch during enrichment,
\* when it is not the last of the batch the worker goes on with the batch: to
\* the lookup of this request or to the check of the next one.
C14_OneBadUserDropsOnlyItself ==
    [][\A w \in DbWorkers :
         (CheckStep(w) /\ idx[w] < Len(user_batch[w]))
         => \/ dbPc'[w] = "cache" /\ idx'[w] = idx[w]
            \/ dbPc'[w] = "check" /\ idx'[w] = idx[w] + 1]_vars

SentinelsOnFrames(q) ==
    Cardinality({i \in DOMAIN q : q[i].t = FrameSentinel.t})

\* C15: each queue has a bound that an enqueue respects by blocking or
\* dropping: the processing queue never holds as many as MaxFrames frames and
\* the persistence queue never as many as MaxRequests requests, however far
\* the producers are ahead of the workers (sentinels not counted).
C15_QueuesAreBounded ==
    /\ Len(message_queue) - SentinelsOnFrames(message_queue) < MaxFrames
    /\ Len(process_queue) - SentinelsOn(process_queue) < MaxRequests

\* a processing worker takes the frame at the head of its queue; Put is what
\* that step appends to the persistence queue
TakesFrame ==
    /\ message_queue # <<>>
    /\ message_queue' = Tail(message_queue)
    /\ Head(message_queue).t # FrameSentinel.t

Put == SubSeq(process_queue', Len(process_queue) + 1, Len(process_queue'))

\* C16: no item ends a worker by an error: no worker of either pool is ever
\* dead, the worker that took a frame whose handling raised is still running
\* after it, and the step that handles a frame leaves the supervisor as it is.
C16_NoErrorEndsAWorker ==
    [][/\ \A w \in ProcWorkers : procState'[w] # "dead"
       /\ \A w \in DbWorkers : dbPc'[w] # "dead"
       /\ TakesFrame =>
            /\ UNCHANGED supVars
            /\ \A w \in ProcWorkers :
                 procState[w] = "running" => procState'[w] = "running"]_vars

\* a frame whose handling raised has put request 1, the frame after it has been
\* handled and has put requests 2 and 3, and a persistence worker is back at
\* the top of its loop with its full user batch after a failed existence check
C16_Witness ==
    /\ \A w \in ProcWorkers : procState[w] = "running"
    /\ message_queue = <<>>
    /\ \E i \in DOMAIN process_queue :
         /\ process_queue[i].id = 3
         /\ process_queue[i].request # "insert_user"
    /\ \E w \in DbWorkers :
         /\ dbPc[w] = "wait"
         /\ Len(user_batch[w]) >= BatchSize
         /\ user_batch[w][1].id = 1

\* the collection whose create ops feed a kind of request
CollectionOf(kind) ==
    CASE kind = "insert_post" -> "app.bsky.feed.post"
      [] kind = "insert_repost" -> "app.bsky.feed.repost"
      [] kind = "insert_like" -> "app.bsky.feed.like"

RecordKinds == Kinds \ {"insert_user"}

\* C17: a frame that is not a #commit puts no request; a #commit frame puts
\* exactly one insert_user request, for its repo, whatever its ops; and every
\* post, repost or like request carries the cid of a create op whose path
\* contains the kind's infix and names the kind's collection: an op of another
\* action or of another namespace produces no request.
C17_Classification ==
    [][TakesFrame =>
        LET f == Head(message_queue) IN
        /\ (~f.decodes \/ f.t # "#commit") => Put = <<>>
        /\ (f.decodes /\ f.t = "#commit") =>
             /\ Cardinality({i \in DOMAIN Put :
                               Put[i].request = "insert_user"}) = 1
             /\ \A i \in DOMAIN Put :
                  Put[i].request = "insert_user" => Put[i].data = Did(f.repo)
        /\ \A i \in DOMAIN Put :
             Put[i].request \in RecordKinds =>
               \E j \in DOMAIN f.ops :
                  /\ f.ops[j].action = "create"
                  /\ f.ops[j].cid = Put[i].data.cid
                  /\ PathContains(f.ops[j].path,
                                  CollectionOf(Put[i].request))
                  /\ f.ops[j].path = CollectionOf(Put[i].request)]_vars

\* the structured blocks of frame f whose cid is c
BlocksOf(f, c) ==
    {i \in DOMAIN f.blocks : ~f.blocks[i].isStr /\ f.blocks[i].cid = c}

KnownMedia == {"video", "images", "external"}

\* the flags and fields the claim gives for embed e
EmbedFlagsOK(e, sf) ==
    LET seg == TerminalSegment(e.type)
        mseg == TerminalSegment(e.media.type)
    IN  /\ ~e.present => ~sf.has_embed /\ ~sf.has_record
        /\ (e.present /\ seg \in KnownMedia)
             => sf.has_embed /\ ~sf.has_record
        /\ (e.present /\ seg = "record") =>
             /\ ~sf.has_embed /\ sf.has_record
             /\ sf.record_cid = <<e.record.cid>>
             /\ sf.record_uri = e.record.uri
        /\ (e.present /\ seg = "recordWithMedia") =>
             /\ sf.has_embed /\ sf.has_record
             /\ sf.record_cid = <<e.inner.cid>>
             /\ sf.record_uri = e.inner.uri
             /\ sf.embed_type = Type(<<mseg>>)
             /\ mseg = "video" => sf.embed_refs = <<e.media.video.ref>>
             /\ mseg = "images" => sf.embed_refs = e.media.images.refs
             /\ mseg = "external"
                  => sf.external_uri = <<e.media.external.uri>>

\* C18: every insert_post request a frame puts was assembled from a block of
\* the frame with its cid, and its embed flags and fields are those the
\* terminal segment of that block's embed discriminator selects.
C18_EmbedFlags ==
    [][TakesFrame =>
        LET f == Head(message_queue) IN
        \A i \in DOMAIN Put :
           Put[i].request = "insert_post" =>
             \E b \in BlocksOf(f, Put[i].data.cid) :
                /\ f.blocks[b].data.present
                /\ Put[i].data.v = f.blocks[b].data.v
                /\ EmbedFlagsOK(f.blocks[b].data.embed, Put[i].data)]_vars

\* a recordWithMedia post with a video has been put: both flags, the record of
\* embed.record.record, the media's segment as embed_type and its ref
C18_Witness ==
    \E i \in DOMAIN process_queue :
        /\ process_queue[i].request = "insert_post"
        /\ process_queue[i].data.has_embed
        /\ process_queue[i].data.has_record
        /\ process_queue[i].data.record_cid = <<"RC">>
        /\ process_queue[i].data.record_uri = "RU"
        /\ process_queue[i].data.embed_type = Type(<<"video">>)
        /\ process_queue[i].data.embed_refs = <<"VR">>

\* the kinds for which the ops of frame f collect cid c
KindsOf(f, c) ==
    {k \in RecordKinds :
       \E j \in DOMAIN f.ops :
          /\ f.ops[j].action = "create"
          /\ f.ops[j].cid = c
          /\ PathContains(f.ops[j].path, CollectionOf(k))}

\* an embed whose discriminator, or whose media discriminator, selects no case
UnknownEmbed(e) ==
    /\ e.present
    /\ \/ TerminalSegment(e.type)
            \notin KnownMedia \cup {"record", "recordWithMedia", ""}
       \/ /\ TerminalSegment(e.type) = "recordWithMedia"
          /\ e.record.present /\ e.inner.present /\ e.media.present
          /\ TerminalSegment(e.media.type) \notin KnownMedia

\* block b has what the assembly of a request of kind k reads
WellFormed(k, b) ==
    /\ b.data.present
    /\ k # "insert_post" => b.data.subject.present
    /\ k = "insert_post" =>
         LET e == b.data.embed
             seg == TerminalSegment(e.type)
             mseg == TerminalSegment(e.media.type)
         IN  \/ ~e.present
             \/ UnknownEmbed(e)
             \/ seg = ""
             \/ seg = "video" /\ e.video.present
             \/ seg = "images" /\ e.images.present
             \/ seg = "external" /\ e.external.present
             \/ seg = "record" /\ e.record.present
             \/ /\ seg = "recordWithMedia"
                /\ e.record.present /\ e.inner.present /\ e.media.present
                /\ \/ mseg = "video" /\ e.media.video.present
                   \/ mseg = "images" /\ e.media.images.present
                   \/ mseg = "external" /\ e.media.external.present

\* every block of f that a collected cid matches is well formed
AllWellFormed(f) ==
    \A i \in DOMAIN f.blocks :
       ~f.blocks[i].isStr =>
          \A k \in KindsOf(f, f.blocks[i].cid) : WellFormed(k, f.blocks[i])

\* the storage frame of a post whose embed is unknown: the fields as they were
\* set before the unknown case was reached
UnknownFrame(c, repo, data) ==
    LET e == data.embed
        sf == [NewStorageFrame(c, repo) EXCEPT !.v = data.v] IN
    IF TerminalSegment(e.type) = "recordWithMedia"
    THEN [sf EXCEPT !.has_embed = TRUE, !.has_record = TRUE,
                    !.record_cid = <<e.inner.cid>>,
                    !.record_uri = e.inner.uri,
                    !.embed_type = Type(<<TerminalSegment(e.media.type)>>)]
    ELSE [sf EXCEPT !.embed_type = e.type]

Requested(k, c) ==
    {i \in DOMAIN Put : Put[i].request = k /\ Put[i].data.cid = c}

\* C19: in a #commit frame whose matched blocks are otherwise well formed, a
\* post block with an unknown or missing embed or media discriminator gives
\* exactly one insert_post request, with the embed fields as they were before
\* the unknown case, and every other matched block of the frame still gives
\* its request.
C19_UnknownEmbedKeepsRecord ==
    [][TakesFrame =>
        LET f == Head(message_queue) IN
        (f.decodes /\ f.t = "#commit" /\ ~OpsRaise(f.ops) /\ AllWellFormed(f))
        => \A i \in DOMAIN f.blocks :
             ("insert_post" \in KindsOf(f, f.blocks[i].cid)
              /\ ~f.blocks[i].isStr
              /\ UnknownEmbed(f.blocks[i].data.embed))
             => /\ Cardinality(Requested("insert_post", f.blocks[i].cid)) = 1
                /\ \A n \in Requested("insert_post", f.blocks[i].cid) :
                     Put[n].data = UnknownFrame(f.blocks[i].cid, f.repo,
                                                f.blocks[i].data)
                /\ \A j \in DOMAIN f.blocks :
                     ~f.blocks[j].isStr =>
                       \A k \in KindsOf(f, f.blocks[j].cid) :
                          Requested(k, f.blocks[j].cid) # {}]_vars

\* a post with an unknown media type has been put next to the like of the same
\* frame
C19_Witness ==
    /\ \E i \in DOMAIN process_queue :
         /\ process_queue[i].request = "insert_post"
         /\ process_queue[i].data.embed_type = Type(<<"gif">>)
         /\ process_queue[i].data.has_record
         /\ process_queue[i].data.embed_refs = <<>>
    /\ \E i \in DOMAIN process_queue : process_queue[i].request = "insert_like"

\* the cids of frame f that its ops collect for kind k and whose matching
\* blocks, if any, are all well formed
SoundCids(f, k) ==
    {f.ops[j].cid : j \in {n \in DOMAIN f.ops :
        /\ k \in KindsOf(f, f.ops[n].cid)
        /\ \A i \in BlocksOf(f, f.ops[n].cid) : WellFormed(k, f.blocks[i])}}

\* C20: for every collected cid of a #commit frame whose own blocks are well
\* formed, a request of its kind is put if and only if the block list has a
\* structured block with that cid, whatever the other blocks of the frame are:
\* a missing or malformed block of another cid does not keep it from its
\* request.
C20_RecordAssembly ==
    [][TakesFrame =>
        LET f == Head(message_queue) IN
        (f.decodes /\ f.t = "#commit" /\ ~OpsRaise(f.ops))
        => \A k \in RecordKinds : \A c \in SoundCids(f, k) :
             Requested(k, c) # {} <=> BlocksOf(f, c) # {}]_vars

\* the requests of a batch are in the order of their serial numbers, which is
\* the order in which the queue hands them out
InDequeueOrder(batch) ==
    \A i, j \in DOMAIN batch : i < j => batch[i].id < batch[j].id

\* what worker w has dequeued of kind k and not yet handed to a flush
Pending(w, k) == {t \in dequeued[w] \ handed[w] : t[2] = k}

\* C21: when a worker leaves the flush of a kind, the batch it passed holds
\* the requests of that kind it dequeued since the previous flush of the kind,
\* all of them and in dequeue order, and nothing of it is left in the batch.
C21_FlushIsOrderedWholeBatch ==
    [][\A w \in DbWorkers : \A k \in Kinds :
         (InFlush(w, k) /\ ~InFlush(w, k)') =>
            /\ InDequeueOrder(Batches(w)[k])
            /\ Ids(Batches(w)[k]) = Pending(w, k)
            /\ Pending(w, k)' = {}]_vars

\* the step worker w takes from the cache of lookup_user
CacheStep(w) == dbPc[w] = "cache" /\ dbPc'[w] # "cache"

\* C22: a lookup of a did whose last successful lookup completed less than
\* CACHE_TTL seconds ago issues no directory request and returns the pair
\* that lookup returned; a lookup CACHE_TTL seconds or more after it issues a
\* request; and the cache changes only when a directory request succeeds, to
\* the list it returned, stamped with the time of that step.
C22_DirectoryCache ==
    [][/\ \A w \in DbWorkers :
            CacheStep(w) =>
              LET did == user_batch[w][idx[w]].data.did
                  e == cache[did] IN
              /\ (e # NoEntry /\ clock - e.at < CACHE_TTL) =>
                    /\ dbPc'[w] # "http"
                    /\ processed_batch'[w] =
                         Append(processed_batch[w],
                                [did |-> did, first_known_as |-> e.value[1],
                                 also_known_as_full |-> e.value])
              /\ (e # NoEntry /\ clock - e.at >= CACHE_TTL) =>
                    dbPc'[w] = "http"
       /\ \A d \in Dids :
            cache'[d] # cache[d] =>
              /\ \E w \in DbWorkers :
                    /\ dbPc[w] = "http"
                    /\ dbPc'[w] # "http"
                    /\ user_batch[w][idx[w]].data.did = d
              /\ httpx_client = "open"
              /\ directory[d] # <<>>
              /\ cache'[d] = [value |-> directory[d], at |-> clock]]_vars

\* a worker whose loop iteration began after the stall is about to write a row
\* that can only come from the cache: the entry was set before the stall, is
\* not an hour old, and the directory has a different list by now
C22_Witness ==
    \E w \in DbWorkers : \E d \in Dids :
        /\ now[w] > MaxTime
        /\ dbPc[w] = "write"
        /\ processed_batch[w] # <<>>
        /\ processed_batch[w][1].did = d
        /\ cache[d].at <= MaxTime
        /\ clock - cache[d].at < CACHE_TTL
        /\ processed_batch[w][1].also_known_as_full = cache[d].value
        /\ directory[d] # cache[d].value

\* C23: an attempt of the directory lookup that fails leaves the worker in the
\* lookup with its batch and rows as they were, after a sleep of at least
\* 100 ms and at most 10 s that is no shorter than the sleep before it; the
\* worker leaves the lookup only by an answer with a non-empty alsoKnownAs,
\* and then with the row (first element, full list) added to its rows.
C23_LookupRetriesForever ==
    [][\A w \in DbWorkers :
         dbPc[w] = "http" =>
           LET did == user_batch[w][idx[w]].data.did IN
           /\ dbPc'[w] \in {"http", "check", "write"}
           /\ retries'[w].attempt_number > retries[w].attempt_number =>
                /\ dbPc'[w] = "http"
                /\ user_batch'[w] = user_batch[w]
                /\ idx'[w] = idx[w]
                /\ processed_batch'[w] = processed_batch[w]
                /\ retries'[w].upcoming_sleep >= 100
                /\ retries'[w].upcoming_sleep <= 10000
                /\ retries'[w].upcoming_sleep >= retries[w].upcoming_sleep
           /\ dbPc'[w] # "http" =>
                /\ directory[did] # <<>>
                /\ processed_batch'[w] =
                     Append(processed_batch[w],
                            [did |-> did,
                             first_known_as |-> directory[did][1],
                             also_known_as_full |-> directory[did]])]_vars

\* a lookup is at its attempt after MaxAttempts failures, the last sleep was
\* the longest there is, and the directory would answer now
C23_Witness ==
    \E w \in DbWorkers :
        /\ dbPc[w] = "http"
        /\ retries[w].attempt_number > MaxAttempts
        /\ retries[w].upcoming_sleep = WAIT_MAX
        /\ directory[user_batch[w][idx[w]].data.did] # <<>>

\* request number n is on the persistence queue
Queued(n) == \E i \in DOMAIN process_queue : process_queue[i].id = n

\* some worker has dequeued request number n
Dequeued(n) == \E w \in DbWorkers : \E t \in dequeued[w] : t[1] = n

\* request number n was in a batch whose flush has returned, written or
\* discarded
FlushReturned(n) == \E w \in DbWorkers : \E t \in handed[w] : t[1] = n

\* C24: under fair scheduling and with no sentinel enqueued, every request on
\* the persistence queue is eventually dequeued by a worker, and every request
\* dequeued is eventually flushed or discarded (if the time explored does not
\* end first), also when the workers have been idle for longer than
\* BATCH_TIMEOUT.
C24_EveryRequestIsPersisted ==
    \A n \in 1..MaxRequests :
        /\ Queued(n) ~> Dequeued(n)
        /\ Dequeued(n) ~> (FlushReturned(n) \/ clock = MaxTime)

\* C25: the workers never hold more than NumDbWorkers connections together
\* and none holds two; a worker in the directory lookup holds none (the
\* connection of the existence check has been given back); a worker that is
\* about to take a connection finds one free in the pool of MaxSize; and
\* while the pool has not been opened no worker holds or is about to take one.
C25_ConnectionsWithinPool ==
    /\ Held <= NumDbWorkers
    /\ \A w \in DbWorkers :
         /\ conns[w] <= 1
         /\ dbPc[w] \in {"cache", "http"} => conns[w] = 0
         /\ (AtDatabase(w) /\ conns[w] = 0) => Held < MaxSize
         /\ pool = "unopened" => (conns[w] = 0 /\ ~AtDatabase(w))

\* every worker holds a connection at the same moment, one of them the flush
\* connection of a user batch whose lookups are done
C25_Witness ==
    /\ \A w \in DbWorkers : conns[w] = 1
    /\ \E w \in DbWorkers :
         /\ dbPc[w] = "write"
         /\ Len(processed_batch[w]) = BatchSize

IsSentinel(f) == f.t = FrameSentinel.t

\* no frame stands behind a sentinel on the processing queue
FramesBeforeSentinels(q) ==
    \A i, j \in DOMAIN q : (i < j /\ IsSentinel(q[i])) => IsSentinel(q[j])

\* C26: the processing queue never holds a frame behind a sentinel, and holds
\* a sentinel only when the supervisor has ended; the step that dequeues a
\* frame puts the requests of its classification on the persistence queue;
\* and once the processing workers have all exited no frame is left on the
\* queue.
C26_NoFrameBehindSentinel ==
    [][/\ FramesBeforeSentinels(message_queue')
       /\ (\E i \in DOMAIN message_queue' : IsSentinel(message_queue'[i]))
            => lpc' = "cancelled"
       /\ TakesFrame =>
            Put = Number(ProcessMessage(Head(message_queue)).reqs, produced)
       /\ (\A w \in ProcWorkers : procState'[w] = "exited")
            => message_queue' = <<>>]_vars

\* close has put its sentinels while a frame received before the shutdown is
\* still on the queue, ahead of them, and a worker runs to take it
C26_Witness ==
    /\ mainPc = "gather"
    /\ Len(message_queue) = NumProcWorkers + 1
    /\ ~IsSentinel(message_queue[1])
    /\ \A i \in 2..Len(message_queue) : IsSentinel(message_queue[i])
    /\ \E w \in ProcWorkers : procState[w] = "running"

====
